---- MODULE Spec2Model ----
(***************************************************************************)
(* DockerManager (src/index.js): a wrapper around a container engine       *)
(* client that starts and stops containers and keeps two lists of spec     *)
(* objects, _runningImageList and _stoppingImageList.                      *)
(*                                                                         *)
(* The manager runs on one JavaScript event loop.  Every async method runs *)
(* synchronously up to its next await of an engine call; the engine        *)
(* answers at some later time (EngineRespond) and the method continues at  *)
(* a still later time (Resume).  Calls of the public methods may overlap.  *)
(* Strings are sequences of one-character strings.                         *)
(***************************************************************************)
EXTENDS Integers, Sequences, FiniteSets, TLC

\* ---- bounds of the model ------------------------------------------------
MaxTasks == 3     \* method calls (and calls spawned by init) in one behaviour
MaxActive == 2    \* calls in progress at the same time
MaxExt == 1       \* changes made to the engine from outside the manager
MaxFail == 1      \* engine calls that fail for a reason outside the model
MaxBatch == 2     \* length of the imageList handed to init
MaxSeq == 2       \* method calls in one behaviour of SpecSeq

\* ---- strings ------------------------------------------------------------
Nginx == <<"n","g","i","n","x",":","l","a","t","e","s","t">>
Web == <<"w","e","b">>
Suffix == <<"-","c","o","n","t","a","i","n","e","r">>
\* the value of a containerName property that was never set
Undefined == <<"#undefined">>
NoImage == "none"

RECURSIVE ReplaceFirst(_, _, _)
\* String.prototype.replace with a string pattern: the first occurrence only
ReplaceFirst(str, pat, rep) ==
    IF str = <<>> THEN <<>>
    ELSE IF Head(str) = pat THEN <<rep>> \o Tail(str)
    ELSE <<Head(str)>> \o ReplaceFirst(Tail(str), pat, rep)

formatContainerName(imageName) == ReplaceFirst(imageName \o Suffix, ":", "-")

Range(seq) == {seq[i] : i \in 1..Len(seq)}

\* ---- the spec objects the caller holds ---------------------------------
Specs == {"s1", "s2"}
name(s) == Nginx
\* the container names the engine is asked about
ContainerNames == {Web, formatContainerName(Nginx)}

VARIABLES
    containerName,      \* Image.containerName of every spec object
    runningImageList,   \* this._runningImageList
    stoppingImageList,  \* this._stoppingImageList
    containers,         \* engine: status of the container of every name
    images,             \* engine: the images, each the set of its RepoTags
    tasks,              \* the method calls made so far, in call order
    nExt,               \* changes made from outside so far
    nFail,              \* failures injected so far
    formatArg,          \* the imageName handed to _formatContainerName
    formatRet           \* what _formatContainerName returned for it

vars == <<containerName, runningImageList, stoppingImageList, containers,
          images, tasks, nExt, nFail, formatArg, formatRet>>

Pending(t) == t.result = "pending" /\ t.pc # "hung"
Active == {i \in 1..Len(tasks) : Pending(tasks[i])}

\* ---- a method call ------------------------------------------------------
\* pc is the engine call the method is suspended on, "done" once its promise
\* is settled, "hung" when its promise can no longer be settled.
NewTask(kind, img, flag, cname) ==
    [kind |-> kind, img |-> img, flag |-> flag,
     pc |-> "done", resp |-> "none",
     names |-> {}, status |-> "none", imgs |-> {},
     handle |-> <<>>, via |-> "none", result |-> "pending",
     calls |-> <<>>, answers |-> <<>>,
     arr |-> <<>>, live |-> FALSE, idx |-> 0,
     by |-> 0, batch |-> <<>>,
     \* history, read by the properties only
     run0 |-> runningImageList, stop0 |-> stoppingImageList,
     c0 |-> IF cname \in ContainerNames THEN containers[cname] ELSE "none",
     solo |-> Active = {}]

\* an engine call leaves the process: the method suspends on it; calls keeps
\* the call, the container or image it names and the spec it is made for
Issue(t, op, cname) ==
    [t EXCEPT !.pc = op, !.resp = "none", !.handle = cname,
              !.calls = Append(@, <<op, cname, t.img>>)]

\* the promise of the method is settled
Settle(t, ok) ==
    [t EXCEPT !.pc = "done", !.resp = "none", !.live = FALSE, !.arr = <<>>,
              !.result = IF ok THEN "resolved" ELSE "rejected"]

\* the promise of the method stays pending for ever
Hang(t) == [t EXCEPT !.pc = "hung", !.resp = "none"]

\* what a continuation leaves behind: the call, the two lists, and whether
\* this._runningImageList now refers to a new array object
Eff(t, run, stp, replaced) ==
    [task |-> t, running |-> run, stopping |-> stp, replaced |-> replaced]

\* ---- stopContainer, first half (lines 152-155) --------------------------
callStopContainer(t, Image) ==
    Issue([t EXCEPT !.img = Image], "stop", containerName[Image])

\* ---- stop (lines 134-143) ----------------------------------------------
\* for...of reads the array object the loop began on: pushes to that object
\* are seen, an array assigned to this._runningImageList later is not.
\* a loop that reads this._runningImageList anew at every turn
IterArrayCurrent(t, run) == run

IterArray(t, run) == IF t.live THEN run ELSE t.arr

StopLoop(t, run) ==
    LET a == IterArray(t, run) IN
    IF t.idx < Len(a)
    THEN callStopContainer([t EXCEPT !.idx = @ + 1], a[t.idx + 1])
    ELSE Settle(t, TRUE)

\* ---- startContainer, first half (lines 94-96) --------------------------
callStartContainer(t) == Issue(t, "listContainers", <<>>)

\* ---- an awaited startContainer or stopContainer returns to its caller --
Return(t, ok, run) ==
    CASE t.kind = "stop" ->
            IF ok THEN StopLoop(t, run) ELSE Settle(t, FALSE)
      [] t.kind = "pullImage" /\ t.via = "stream" ->
            \* lines 68-73: a rejection inside the 'end' handler skips resolve()
            IF ok THEN Settle(t, TRUE) ELSE Hang(t)
      [] OTHER -> Settle(t, ok)

\* ---- startContainer (lines 96-125) -------------------------------------
\* a startContainer that creates the container whatever listContainers returned
AfterListContainersAlwaysCreate(t, run, stp) ==
    LET u == [t EXCEPT !.names = {}]
    IN  IF t.resp = "err" THEN Eff(Return(u, FALSE, run), run, stp, FALSE)
        ELSE Eff(Issue(u, "createContainer", containerName[t.img]), run, stp, FALSE)

AfterListContainers(t, run, stp) ==
    LET u == [t EXCEPT !.names = {}]
        exist == (<<"/">> \o containerName[t.img]) \in t.names
    IN  IF t.resp = "err" THEN Eff(Return(u, FALSE, run), run, stp, FALSE)
        ELSE IF ~exist
        THEN Eff(Issue(u, "createContainer", containerName[t.img]), run, stp, FALSE)
        ELSE Eff(Issue(u, "inspect", containerName[t.img]), run, stp, FALSE)

AfterCreateContainer(t, run, stp) ==
    IF t.resp = "err" THEN Eff(Return(t, FALSE, run), run, stp, FALSE)
    ELSE Eff(Issue(t, "start", t.handle), run, stp, FALSE)

\* a startContainer that starts the container whatever its inspected status
AfterInspectAlwaysStart(t, run, stp) ==
    LET u == [t EXCEPT !.status = "none"] IN
    IF t.resp = "err" THEN Eff(Return(u, FALSE, run), run, stp, FALSE)
    ELSE Eff(Issue(u, "start", t.handle), run, stp, FALSE)

AfterInspect(t, run, stp) ==
    LET u == [t EXCEPT !.status = "none"] IN
    IF t.resp = "err" THEN Eff(Return(u, FALSE, run), run, stp, FALSE)
    ELSE IF t.status # "running"
    THEN Eff(Issue(u, "start", t.handle), run, stp, FALSE)
    ELSE Eff(Return(u, TRUE, run), run, stp, FALSE)

\* lines 117-121
RecordStarted(Image, run, stp) ==
    [running |-> Append(run, Image),
     stopping |-> IF Image \in Range(stp)
                  THEN SelectSeq(stp, LAMBDA image :
                           containerName[image] # containerName[Image])
                  ELSE stp]

\* a startContainer that records the spec before it looks at the outcome
AfterStartRecordAnyway(t, run, stp) ==
    LET r == RecordStarted(t.img, run, stp) IN
    Eff(Return(t, t.resp = "ok", r.running), r.running, r.stopping, FALSE)

AfterStart(t, run, stp) ==
    IF t.resp = "err" THEN Eff(Return(t, FALSE, run), run, stp, FALSE)
    ELSE LET r == RecordStarted(t.img, run, stp) IN
         Eff(Return(t, TRUE, r.running), r.running, r.stopping, FALSE)

\* ---- stopContainer (lines 155-168) -------------------------------------
\* a stopContainer that leaves the running list alone
RecordStoppedKeepRunning(Image, run, stp) ==
    [stopping |-> Append(stp, Image), replaced |-> FALSE, running |-> run]

\* lines 157-160
RecordStopped(Image, run, stp) ==
    [stopping |-> Append(stp, Image),
     replaced |-> Image \in Range(run),
     running |-> IF Image \in Range(run)
                 THEN SelectSeq(run, LAMBDA image :
                          containerName[image] # containerName[Image])
                 ELSE run]

\* the loop of a stop() that began on the array just replaced keeps that array
Freeze(t, old, replaced) ==
    IF replaced /\ t.live THEN [t EXCEPT !.live = FALSE, !.arr = old] ELSE t

AfterStop(t, run, stp) ==
    IF t.resp = "err" THEN Eff(Return(t, FALSE, run), run, stp, FALSE)
    ELSE LET r == RecordStopped(t.img, run, stp)
             u == Freeze(t, run, r.replaced)
         IN  IF t.flag
             THEN Eff(Issue(u, "remove", t.handle), r.running, r.stopping, r.replaced)
             ELSE Eff(Return(u, TRUE, r.running), r.running, r.stopping, r.replaced)

AfterRemove(t, run, stp) ==
    Eff(Return(t, t.resp = "ok", run), run, stp, FALSE)

\* ---- pullImage (lines 54-86) -------------------------------------------
\* the RepoTags of an untagged image
Null == {<<"#null">>}

\* a pullImage that pulls whatever listImages() returned
AfterListImagesAlwaysPull(t, run, stp) ==
    LET u == [t EXCEPT !.imgs = {}]
    IN  IF t.resp = "err" THEN Eff(Settle(u, FALSE), run, stp, FALSE)
        ELSE Eff(Issue(u, "pull", name(t.img)), run, stp, FALSE)

AfterListImages(t, run, stp) ==
    LET u == [t EXCEPT !.imgs = {}]
        exist == \E RepoTags \in t.imgs :
                    RepoTags # Null /\ name(t.img) \in RepoTags
    IN  IF t.resp = "err" THEN Eff(Settle(u, FALSE), run, stp, FALSE)
        ELSE IF ~exist THEN Eff(Issue(u, "pull", name(t.img)), run, stp, FALSE)
        ELSE IF t.flag
        THEN Eff(callStartContainer([u EXCEPT !.via = "direct"]), run, stp, FALSE)
        ELSE Eff(Settle(u, TRUE), run, stp, FALSE)

\* the callback of docker.pull (lines 61-74)
AfterPull(t, run, stp) ==
    IF t.resp = "err"
    THEN \* reject(err), then stream.on throws on the missing stream
         Eff(Settle(t, FALSE), run, stp, FALSE)
    ELSE Eff([t EXCEPT !.pc = "stream", !.resp = "none"], run, stp, FALSE)

\* the events of the progress stream (lines 64-73)
AfterStream(t, run, stp) ==
    IF t.resp = "err"
    THEN \* no 'error' listener and no 'end' event: nothing settles the promise
         Eff(Hang(t), run, stp, FALSE)
    ELSE IF t.flag
    THEN Eff(callStartContainer([t EXCEPT !.via = "stream"]), run, stp, FALSE)
    ELSE Eff(Settle(t, TRUE), run, stp, FALSE)

Continue(t, run, stp) ==
    CASE t.pc = "listContainers" -> AfterListContainers(t, run, stp)
      [] t.pc = "createContainer" -> AfterCreateContainer(t, run, stp)
      [] t.pc = "inspect" -> AfterInspect(t, run, stp)
      [] t.pc = "start" -> AfterStart(t, run, stp)
      [] t.pc = "stop" -> AfterStop(t, run, stp)
      [] t.pc = "remove" -> AfterRemove(t, run, stp)
      [] t.pc = "listImages" -> AfterListImages(t, run, stp)
      [] t.pc = "pull" -> AfterPull(t, run, stp)
      [] t.pc = "stream" -> AfterStream(t, run, stp)

\* the event loop runs the continuation of a call whose engine call answered
Resume(i) ==
    /\ tasks[i].resp # "none"
    /\ LET e == Continue([tasks[i] EXCEPT !.answers = Append(@, tasks[i].resp)],
                         runningImageList, stoppingImageList) IN
       /\ runningImageList' = e.running
       /\ stoppingImageList' = e.stopping
       /\ tasks' = [j \in 1..Len(tasks) |->
                      IF j = i THEN e.task
                      ELSE Freeze(tasks[j], runningImageList, e.replaced)]
    /\ UNCHANGED <<containerName, containers, images, nExt, nFail,
                   formatArg, formatRet>>

\* ---- the engine ----------------------------------------------------------
EngineOps == {"listContainers", "createContainer", "inspect", "start", "stop",
              "remove", "listImages", "pull", "stream"}

Answer(t, resp, cs, ims) ==
    [task |-> [t EXCEPT !.resp = resp], containers |-> cs, images |-> ims]

\* What the engine does with the call the method is suspended on.  A
\* container is created under a free name only, started when it is not
\* running, stopped when it is running, removed when it is not running;
\* any other request is refused.
Engine(t, cs, ims) ==
    LET h == t.handle
        no == Answer(t, "err", cs, ims)
    IN  CASE t.pc = "listContainers" ->
                Answer([t EXCEPT !.names = {<<"/">> \o c : c \in {d \in ContainerNames : cs[d] # "none"}}],
                       "ok", cs, ims)
          [] t.pc = "createContainer" ->
                IF cs[h] = "none"
                THEN Answer(t, "ok", [cs EXCEPT ![h] = "created"], ims) ELSE no
          [] t.pc = "inspect" ->
                IF cs[h] # "none"
                THEN Answer([t EXCEPT !.status = cs[h]], "ok", cs, ims) ELSE no
          [] t.pc = "start" ->
                IF cs[h] \in {"created", "exited"}
                THEN Answer(t, "ok", [cs EXCEPT ![h] = "running"], ims) ELSE no
          [] t.pc = "stop" ->
                IF cs[h] = "running"
                THEN Answer(t, "ok", [cs EXCEPT ![h] = "exited"], ims) ELSE no
          [] t.pc = "remove" ->
                IF cs[h] \in {"created", "exited"}
                THEN Answer(t, "ok", [cs EXCEPT ![h] = "none"], ims) ELSE no
          [] t.pc = "listImages" ->
                Answer([t EXCEPT !.imgs = ims], "ok", cs, ims)
          [] t.pc = "pull" -> Answer(t, "ok", cs, ims)
          [] t.pc = "stream" -> Answer(t, "ok", cs, ims \cup {{h}})

Waiting(i) == tasks[i].pc \in EngineOps /\ tasks[i].resp = "none"

\* the engine serves the call
EngineRespond(i) ==
    /\ Waiting(i)
    /\ LET a == Engine(tasks[i], containers, images) IN
       /\ tasks' = [tasks EXCEPT ![i] = a.task]
       /\ containers' = a.containers
       /\ images' = a.images
    /\ UNCHANGED <<containerName, runningImageList, stoppingImageList, nExt, nFail,
                   formatArg, formatRet>>

\* the call fails (connection lost, engine error) where it could have succeeded
EngineFail(i) ==
    /\ Waiting(i)
    /\ nFail < MaxFail
    /\ Engine(tasks[i], containers, images).task.resp = "ok"
    /\ tasks' = [tasks EXCEPT ![i].resp = "err"]
    /\ nFail' = nFail + 1
    /\ UNCHANGED <<containerName, runningImageList, stoppingImageList,
                   containers, images, nExt, formatArg, formatRet>>

\* somebody else stops a container
ExtStop(c) ==
    /\ nExt < MaxExt
    /\ containers[c] = "running"
    /\ containers' = [containers EXCEPT ![c] = "exited"]
    /\ nExt' = nExt + 1
    /\ UNCHANGED <<containerName, runningImageList, stoppingImageList,
                   images, tasks, nFail, formatArg, formatRet>>

\* ---- the caller ----------------------------------------------------------
Room(calls, active) ==
    /\ Len(tasks) + calls <= MaxTasks
    /\ Cardinality(Active) + active <= MaxActive

\* the calls in progress now overlap with the new ones
Overlapped == [j \in 1..Len(tasks) |->
                 IF Pending(tasks[j]) THEN [tasks[j] EXCEPT !.solo = FALSE]
                 ELSE tasks[j]]

\* The caller hands startContainer, stopContainer and pullImage spec objects
\* that carry a containerName; init is the entry point for those that do not.
startContainer(Image) ==
    /\ Room(1, 1)
    /\ containerName[Image] # Undefined
    /\ tasks' = Overlapped \o
         <<callStartContainer(NewTask("startContainer", Image, FALSE, containerName[Image]))>>
    /\ UNCHANGED <<containerName, runningImageList, stoppingImageList,
                   containers, images, nExt, nFail, formatArg, formatRet>>

stopContainer(Image, IsRemoveContainer) ==
    /\ Room(1, 1)
    /\ containerName[Image] # Undefined
    /\ tasks' = Overlapped \o
         <<callStopContainer(NewTask("stopContainer", Image, IsRemoveContainer,
                                     containerName[Image]), Image)>>
    /\ UNCHANGED <<containerName, runningImageList, stoppingImageList,
                   containers, images, nExt, nFail, formatArg, formatRet>>

stop(IsRemoveContainer) ==
    /\ Room(1, 1)
    /\ tasks' = Overlapped \o
         <<StopLoop([NewTask("stop", NoImage, IsRemoveContainer, <<>>)
                        EXCEPT !.live = TRUE], runningImageList)>>
    /\ UNCHANGED <<containerName, runningImageList, stoppingImageList,
                   containers, images, nExt, nFail, formatArg, formatRet>>

pullImage(Image, IsStartContainer) ==
    /\ Room(1, 1)
    /\ containerName[Image] # Undefined
    /\ tasks' = Overlapped \o
         <<Issue(NewTask("pullImage", Image, IsStartContainer, containerName[Image]),
                 "listImages", <<>>)>>
    /\ UNCHANGED <<containerName, runningImageList, stoppingImageList,
                   containers, images, nExt, nFail, formatArg, formatRet>>

\* init (lines 35-45): forEach calls the async callback for every element and
\* drops the promise it returns; each callback runs up to its first await
Batches == UNION {[1..n -> Specs] : n \in 1..MaxBatch}

init(imageList, IsStartContainer) ==
    LET me == Len(tasks) + 1
        call == [NewTask("init", NoImage, IsStartContainer, <<>>)
                    EXCEPT !.batch = imageList, !.result = "resolved",
                           !.solo = FALSE]
        child(k) == [callStartContainer(
                        NewTask("startContainer", imageList[k], IsStartContainer,
                                formatContainerName(name(imageList[k]))))
                        EXCEPT !.by = me,
                               !.solo = Active = {} /\ Len(imageList) = 1]
    IN  /\ Room(Len(imageList) + 1, Len(imageList))
        /\ containerName' = [s \in Specs |->
                               IF s \in Range(imageList)
                               THEN formatContainerName(name(s))
                               ELSE containerName[s]]
        /\ tasks' = Overlapped \o <<call>> \o [k \in 1..Len(imageList) |-> child(k)]
        /\ UNCHANGED <<runningImageList, stoppingImageList,
                       containers, images, nExt, nFail, formatArg, formatRet>>

\* ---- the specifications -------------------------------------------------
Default == formatContainerName(Nginx)

Fresh ==
    /\ runningImageList = <<>>
    /\ stoppingImageList = <<>>
    /\ tasks = <<>>
    /\ nExt = 0
    /\ nFail = 0
    /\ formatArg = <<>>
    /\ formatRet = Undefined

\* the engine calls and the continuations of the calls in progress
Step ==
    \/ \E i \in 1..Len(tasks) : EngineRespond(i)
    \/ \E i \in 1..Len(tasks) : EngineFail(i)
    \/ \E i \in 1..Len(tasks) : Resume(i)
    \/ \E c \in ContainerNames : ExtStop(c)

\* Spec: the caller starts and stops containers of two spec objects that
\* carry a containerName, the same one or two different ones
Init ==
    /\ Fresh
    /\ containerName \in {f \in [Specs -> {Web, Default}] : f["s1"] = Web}
    /\ containers \in [ContainerNames -> {"none", "running"}]
    /\ \A c \in ContainerNames :
          (\A s \in Specs : containerName[s] # c) => containers[c] = "none"
    /\ images = {}

Next ==
    \/ \E s \in Specs : startContainer(s)
    \/ \E s \in Specs, r \in BOOLEAN : stopContainer(s, r)
    \/ \E r \in BOOLEAN : stop(r)
    \/ Step

Spec == Init /\ [][Next]_vars

\* SpecSeq: the same caller, making a call only when no call is in progress
Idle == Active = {} /\ Len(tasks) < MaxSeq

NextSeq ==
    \/ Idle /\ \E s \in Specs : startContainer(s)
    \/ Idle /\ \E s \in Specs, r \in BOOLEAN : stopContainer(s, r)
    \/ Idle /\ \E r \in BOOLEAN : stop(r)
    \/ Step

SpecSeq == Init /\ [][NextSeq]_vars

\* SpecInit: the caller hands batches of spec objects to init
InitBatch ==
    /\ Fresh
    /\ containerName \in {f \in [Specs -> {Undefined, Web, Default}] :
                             f["s1"] # Default /\ f["s2"] # Web}
    /\ containers \in [ContainerNames -> {"none", "exited", "running"}]
    /\ images \in {{}, {{Nginx}, Null}}

NextInit ==
    \/ \E l \in Batches, b \in BOOLEAN : init(l, b)
    \/ Step

SpecInit == InitBatch /\ [][NextInit]_vars

\* SpecPull: the caller pulls images, one call after the other
InitPull ==
    /\ Fresh
    /\ containerName = [s \in Specs |-> IF s = "s1" THEN Web ELSE Default]
    /\ containers \in [ContainerNames -> {"none", "exited", "running"}]
    /\ images \in {{}, {{Nginx}, Null}}

NextPull ==
    \/ Idle /\ \E s \in Specs, b \in BOOLEAN : pullImage(s, b)
    \/ Step

SpecPull == InitPull /\ [][NextPull]_vars

\* SpecStop: the caller starts containers and calls stop(), one call after
\* the other
MaxStopSeq == 3
IdleStop == Active = {} /\ Len(tasks) < MaxStopSeq

NextStop ==
    \/ IdleStop /\ \E s \in Specs : startContainer(s)
    \/ IdleStop /\ \E r \in BOOLEAN : stop(r)
    \/ Step

SpecStop == Init /\ [][NextStop]_vars

\* SpecFormat: _formatContainerName applied to every image string of at most
\* MaxLen characters: a name character, the colon and the hyphen
MaxLen == 4
Alphabet == {"a", ":", "-"}
ImageNames == UNION {[1..n -> Alphabet] : n \in 0..MaxLen}

InitFormat ==
    /\ runningImageList = <<>>
    /\ stoppingImageList = <<>>
    /\ tasks = <<>>
    /\ nExt = 0
    /\ nFail = 0
    /\ containerName = [s \in Specs |-> Undefined]
    /\ containers = [c \in ContainerNames |-> "none"]
    /\ images = {}
    /\ formatArg \in ImageNames
    /\ formatRet = Undefined

callFormatContainerName ==
    /\ formatRet = Undefined
    /\ formatRet' = formatContainerName(formatArg)
    /\ UNCHANGED <<containerName, runningImageList, stoppingImageList,
                   containers, images, tasks, nExt, nFail, formatArg>>

NextFormat == callFormatContainerName

SpecFormat == InitFormat /\ [][NextFormat]_vars

\* ---- what the properties read ---------------------------------------------
Count(calls, op) == Len(SelectSeq(calls, LAMBDA c : c[1] = op))
OpsOf(calls) == [k \in 1..Len(calls) |-> calls[k][1]]
NamesOf(list) == {containerName[list[k]] : k \in 1..Len(list)}
Direct(t, kind) == t.kind = kind /\ t.by = 0
\* the call ran alone and no call was made after it
AloneAndLast(i) == tasks[i].solo /\ i = Len(tasks)

\* C1: no containerName is in the running list and in the stopped list at
\* the same time, whatever startContainer and stopContainer calls were made.
C1_NameInOneListOnly ==
    NamesOf(runningImageList) \cap NamesOf(stoppingImageList) = {}

\* C2: a startContainer that finds its container and inspects it as
\* "running" returns successfully, has issued no start(), and leaves its spec
\* in the running list at the moment it returns.
C2_RunningIsRecorded ==
    [][\A i \in 1..Len(tasks) :
          (/\ Direct(tasks[i], "startContainer")
           /\ tasks[i].pc = "inspect" /\ tasks[i].resp = "ok"
           /\ tasks[i].status = "running"
           /\ Len(tasks') >= i /\ tasks'[i].pc = "done")
          => /\ tasks'[i].result = "resolved"
             /\ Count(tasks'[i].calls, "start") = 0
             /\ tasks[i].img \in Range(runningImageList')]_vars

\* C3: two startContainer calls in sequence on the same spec, the first made
\* when the engine had no container of that name, nothing else running and
\* nothing changed from outside, no engine call failing: one createContainer
\* and at most one start() in all, and the second call issues neither and
\* returns successfully.
C3_Sequence(i) ==
    /\ i + 1 <= Len(tasks)
    /\ Direct(tasks[i], "startContainer") /\ Direct(tasks[i + 1], "startContainer")
    /\ tasks[i].img = tasks[i + 1].img
    /\ tasks[i].solo /\ tasks[i + 1].solo
    /\ tasks[i].pc = "done" /\ tasks[i + 1].pc = "done"
    /\ tasks[i].c0 = "none"
    /\ nExt = 0 /\ nFail = 0

C3_SecondStartIsNoOp ==
    \A i \in 1..Len(tasks) :
        C3_Sequence(i) =>
            LET both == tasks[i].calls \o tasks[i + 1].calls IN
            /\ Count(both, "createContainer") = 1
            /\ Count(both, "start") <= 1
            /\ Count(tasks[i + 1].calls, "createContainer") = 0
            /\ Count(tasks[i + 1].calls, "start") = 0
            /\ tasks[i + 1].result = "resolved"

C3_Witness ==
    \E i \in 1..Len(tasks) :
        /\ C3_Sequence(i)
        /\ Count(tasks[i].calls, "start") = 1
        /\ tasks[i + 1].result = "resolved"

\* the calls init made for the specs of its batch
ChildrenOf(i) == {j \in 1..Len(tasks) : tasks[j].by = i}
HasImage(tag) == \E RepoTags \in images : RepoTags # Null /\ tag \in RepoTags
Lifecycle(calls) ==
    SelectSeq(OpsOf(calls), LAMBDA op : op \in {"pull", "createContainer", "start"})

NginxLatestContainer ==
    <<"n","g","i","n","x","-","l","a","t","e","s","t","-","c","o","n","t","a","i","n","e","r">>

\* C4: init of one spec named "nginx:latest", alone, on an engine without
\* the image and without the container, no engine call failing: once the
\* convergence has finished the engine was asked for one pull, then one
\* createContainer, then one start(), and the running list holds exactly
\* that spec, named "nginx-latest-container".
C4_InitPullsCreatesStarts ==
    \A i \in 1..Len(tasks) :
        (/\ tasks[i].kind = "init" /\ Len(tasks[i].batch) = 1
         /\ i + 1 = Len(tasks)
         /\ name(tasks[i].batch[1]) = Nginx
         /\ tasks[i + 1].solo /\ tasks[i + 1].run0 = <<>>
         /\ tasks[i + 1].c0 = "none" /\ ~HasImage(Nginx)
         /\ nFail = 0 /\ nExt = 0
         /\ tasks[i + 1].pc = "done")
        => /\ Lifecycle(tasks[i + 1].calls) = <<"pull", "createContainer", "start">>
           /\ runningImageList = <<tasks[i].batch[1]>>
           /\ containerName[tasks[i].batch[1]] = NginxLatestContainer

\* C5: of the startContainer calls one init makes for two specs of the same
\* containerName, no two are in progress at the same time, and the engine is asked
\* to create a container of one name at most once when none existed.
C5_OneConvergencePerName ==
    \A i \in 1..Len(tasks) :
        \A j, k \in ChildrenOf(i) :
            (/\ j < k /\ tasks[j].img # tasks[k].img
             /\ containerName[tasks[j].img] = containerName[tasks[k].img])
            => /\ ~(Pending(tasks[j]) /\ Pending(tasks[k]))
               /\ tasks[j].c0 = "none" =>
                     Count(tasks[j].calls \o tasks[k].calls, "createContainer") <= 1

\* C6: once the promise of init is resolved, none of the startContainer
\* calls it made is still in progress and every one that succeeded has its
\* spec in the running list.
C6_InitResolvesAfterConvergence ==
    \A i \in 1..Len(tasks) :
        (tasks[i].kind = "init" /\ tasks[i].result = "resolved")
        => \A j \in ChildrenOf(i) :
              /\ ~Pending(tasks[j])
              /\ tasks[j].result = "resolved" =>
                    tasks[j].img \in Range(runningImageList)

\* C7: when the convergence of a spec of the batch fails, the promise of
\* init does not resolve successfully.
C7_InitDeliversFailure ==
    \A i \in 1..Len(tasks) :
        (tasks[i].kind = "init" /\ \E j \in ChildrenOf(i) : tasks[j].result = "rejected")
        => tasks[i].result # "resolved"

\* C8: the calls made by init(specs, false) issue no start().
C8_NoStartWhenFlagFalse ==
    \A i \in 1..Len(tasks) :
        (tasks[i].kind = "init" /\ ~tasks[i].flag)
        => \A j \in ChildrenOf(i) : Count(tasks[j].calls, "start") = 0

\* C9: stop() issues engine stop calls only for the specs that were in the
\* running list when stop() was called.
C9_StopUsesSnapshot ==
    \A i \in 1..Len(tasks) :
        tasks[i].kind = "stop"
        => \A k \in 1..Len(tasks[i].calls) :
              tasks[i].calls[k][1] = "stop"
              => tasks[i].calls[k][3] \in Range(tasks[i].run0)

\* C10: stopContainer(spec, true), alone, on a spec that is in the running
\* list: one stop(), then one remove() and only once stop() has succeeded;
\* when it returns after a successful stop() the spec is in the stopped list
\* and not in the running list, and a failed remove() rejects the call.
C10_Call(i) ==
    /\ Direct(tasks[i], "stopContainer") /\ tasks[i].flag
    /\ tasks[i].img \in Range(tasks[i].run0)
    /\ AloneAndLast(i)

C10_StopThenRemove ==
    \A i \in 1..Len(tasks) :
        C10_Call(i) =>
            LET t == tasks[i] IN
            /\ OpsOf(t.calls) \in {<<"stop">>, <<"stop", "remove">>}
            /\ Len(t.calls) = 2 => t.answers[1] = "ok"
            /\ (t.pc = "done" /\ t.answers[1] = "ok") =>
                  /\ OpsOf(t.calls) = <<"stop", "remove">>
                  /\ t.img \in Range(stoppingImageList)
                  /\ t.img \notin Range(runningImageList)
                  /\ t.result = IF t.answers[2] = "ok" THEN "resolved" ELSE "rejected"

C10_Witness ==
    \E i \in 1..Len(tasks) :
        /\ C10_Call(i)
        /\ tasks[i].pc = "done"
        /\ tasks[i].answers = <<"ok", "err">>
        /\ tasks[i].result = "rejected"
        /\ tasks[i].img \in Range(stoppingImageList)

\* ---- pullImage -------------------------------------------------------------
LastAnswer(t) == t.answers[Len(t.answers)]
\* the call has come to its end: its promise is settled or can no longer be
Ended(t) == t.pc \in {"done", "hung"}

\* C11: a pullImage call that asked the engine for a pull and was not asked
\* to start the container never gets into a state where its promise can no
\* longer be settled: pull refused, progress stream ended and progress stream
\* broken each resolve or reject the call.
C11_PullSettles ==
    \A i \in 1..Len(tasks) :
        (/\ tasks[i].kind = "pullImage" /\ ~tasks[i].flag
         /\ Count(tasks[i].calls, "pull") = 1)
        => tasks[i].pc # "hung"

\* C12: a pullImage(spec, true) whose startContainer failed has come to its
\* end with a rejected promise, whether the image was present or pulled.
C12_PullDeliversStartFailure ==
    \A i \in 1..Len(tasks) :
        (/\ tasks[i].kind = "pullImage" /\ tasks[i].flag
         /\ Count(tasks[i].calls, "listContainers") = 1
         /\ Ended(tasks[i]) /\ LastAnswer(tasks[i]) = "err")
        => tasks[i].result = "rejected"

\* the tag lists returned by listImages() hold the name verbatim
Listed(imgs, tag) == \E RepoTags \in imgs : RepoTags # Null /\ tag \in RepoTags
Issues(i, op) ==
    /\ i <= Len(tasks')
    /\ Count(tasks'[i].calls, op) = Count(tasks[i].calls, op) + 1

\* C13: pullImage asks the engine for a pull only on return from a
\* listImages() whose tag lists do not hold the image name of the spec, and
\* at most once: when the name is listed it issues no pull.
C13_NoPullWhenListed ==
    /\ [][\A i \in 1..Len(tasks) :
             Issues(i, "pull")
             => /\ tasks[i].pc = "listImages" /\ tasks[i].resp = "ok"
                /\ ~Listed(tasks[i].imgs, name(tasks[i].img))]_vars
    /\ [](\A i \in 1..Len(tasks) :
             /\ Count(tasks[i].calls, "listImages") <= 1
             /\ Count(tasks[i].calls, "pull") <= 1)

\* the image was listed, no pull was issued and the container was started
C13_Witness ==
    \E i \in 1..Len(tasks) :
        /\ tasks[i].kind = "pullImage" /\ tasks[i].flag
        /\ tasks[i].pc = "done" /\ tasks[i].result = "resolved"
        /\ tasks[i].answers[1] = "ok"
        /\ Count(tasks[i].calls, "pull") = 0
        /\ Count(tasks[i].calls, "start") = 1

\* ---- _formatContainerName ------------------------------------------------
\* C14: _formatContainerName returns the image string followed by
\* "-container" with every ':' replaced by '-': the result is as long as the
\* image string plus the suffix, holds '-' wherever that holds ':' and the
\* same character everywhere else, however many ':' the image string holds.
C14_EveryColonReplaced ==
    formatRet # Undefined =>
        LET whole == formatArg \o Suffix IN
        /\ Len(formatRet) = Len(whole)
        /\ \A k \in 1..Len(whole) :
              formatRet[k] = IF whole[k] = ":" THEN "-" ELSE whole[k]

\* ---- init ------------------------------------------------------------------
\* C15: init derives a containerName only for the specs that carry none: no
\* step changes the containerName a spec object already carries, so a spec
\* handed to init with a containerName of its own keeps it.
C15_SuppliedNameKept ==
    [][\A s \in Specs :
          containerName[s] # Undefined => containerName'[s] = containerName[s]]_vars

\* ---- startContainer and stopContainer ---------------------------------------
\* the call ran alone, has returned, and an engine call of startContainer
\* failed or the stop() of stopContainer failed
C16_Failed(i) ==
    /\ AloneAndLast(i) /\ tasks[i].pc = "done"
    /\ \/ Direct(tasks[i], "startContainer") /\ LastAnswer(tasks[i]) = "err"
       \/ Direct(tasks[i], "stopContainer") /\ tasks[i].answers[1] = "err"

\* C16: when listContainers, createContainer, inspect or start() fails in
\* startContainer, or stop() fails in stopContainer, the call rejects and the
\* running list and the stopped list are what they were when it was made.
C16_FailureLeavesLists ==
    \A i \in 1..Len(tasks) :
        C16_Failed(i) =>
            /\ tasks[i].result = "rejected"
            /\ runningImageList = tasks[i].run0
            /\ stoppingImageList = tasks[i].stop0

\* a start() that failed after a createContainer, with a spec in running
C16_Witness ==
    \E i \in 1..Len(tasks) :
        /\ C16_Failed(i)
        /\ OpsOf(tasks[i].calls) = <<"listContainers", "createContainer", "start">>
        /\ tasks[i].run0 # <<>>
        /\ tasks[i].result = "rejected"

\* the continuation of call i runs on an engine call that succeeded
Resumed(i, op) ==
    /\ tasks[i].pc = op /\ tasks[i].resp = "ok"
    /\ tasks'[i].answers # tasks[i].answers
\* some container returned by listContainers carries "/" + containerName
Found(t) == (<<"/">> \o containerName[t.img]) \in t.names

\* C17: startContainer issues createContainer exactly on return from a
\* listContainers that shows no container named "/" + containerName; it
\* issues start() exactly after that createContainer or on return from an
\* inspect that shows a status other than "running"; it issues each at most
\* once, and never createContainer together with inspect.
C17_CreateAndStart ==
    /\ [][\A i \in 1..Len(tasks) :
             /\ Issues(i, "createContainer")
                   <=> Resumed(i, "listContainers") /\ ~Found(tasks[i])
             /\ Issues(i, "inspect")
                   <=> Resumed(i, "listContainers") /\ Found(tasks[i])
             /\ Issues(i, "start")
                   <=> \/ Resumed(i, "createContainer")
                       \/ Resumed(i, "inspect") /\ tasks[i].status # "running"]_vars
    /\ [](\A i \in 1..Len(tasks) :
             tasks[i].kind = "startContainer"
             => /\ Count(tasks[i].calls, "listContainers") = 1
                /\ Count(tasks[i].calls, "createContainer")
                      + Count(tasks[i].calls, "inspect") <= 1
                /\ Count(tasks[i].calls, "start") <= 1)

\* a container found stopped was started without a createContainer, and a
\* container found running was left alone
C17_Witness ==
    /\ Len(tasks) = 2
    /\ tasks[1].pc = "done" /\ tasks[2].pc = "done"
    /\ OpsOf(tasks[1].calls) = <<"listContainers", "inspect", "start">>
    /\ OpsOf(tasks[2].calls) = <<"listContainers", "inspect">>
    /\ tasks[2].result = "resolved"

\* ---- the two lists ----------------------------------------------------------
\* no containerName occurs twice in the list
KeyedByName(list) ==
    \A j, k \in 1..Len(list) :
        containerName[list[j]] = containerName[list[k]] => j = k

\* C18: whatever startContainer and stopContainer calls were made, no
\* containerName occurs more than once in the running list nor more than
\* once in the stopped list.
C18_ListsKeyedByName ==
    KeyedByName(runningImageList) /\ KeyedByName(stoppingImageList)

\* ---- stop ---------------------------------------------------------------
\* the specs the call issued an engine stop() for, in the order of the calls
StoppedBy(t) ==
    LET stops == SelectSeq(t.calls, LAMBDA c : c[1] = "stop")
    IN  [k \in 1..Len(stops) |-> stops[k][3]]
AllOk(t) == \A k \in 1..Len(t.answers) : t.answers[k] = "ok"

\* stop() ran alone, has returned, and no engine call of it failed
C19_Call(i) ==
    /\ Direct(tasks[i], "stop") /\ AloneAndLast(i)
    /\ tasks[i].pc = "done" /\ AllOk(tasks[i])

\* C19: a stop() that ran alone and whose engine calls all succeeded has
\* issued one engine stop() for every entry the running list held when it
\* was called, in the order of the list, and when it returns the running
\* list is empty and every one of these specs is in the stopped list.
C19_StopStopsEveryEntry ==
    \A i \in 1..Len(tasks) :
        C19_Call(i) =>
            /\ StoppedBy(tasks[i]) = tasks[i].run0
            /\ tasks[i].result = "resolved"
            /\ runningImageList = <<>>
            /\ Range(tasks[i].run0) \subseteq Range(stoppingImageList)

\* a stop() of a running list of two specs
C19_Witness ==
    \E i \in 1..Len(tasks) :
        /\ C19_Call(i)
        /\ Len(tasks[i].run0) = 2
        /\ tasks[i].run0[1] # tasks[i].run0[2]
        /\ Len(stoppingImageList) = 2

\* stop() ran alone and has returned after an engine call of it failed
C20_Call(i) ==
    /\ Direct(tasks[i], "stop") /\ AloneAndLast(i)
    /\ tasks[i].pc = "done" /\ ~AllOk(tasks[i])

\* C20: a stop() in which a stopContainer failed rejects; it has issued
\* engine stop() calls for the entries of the running list up to the failing
\* one and for none after it; the entries after it, and the failing one
\* when it was its stop() that failed, are in the running list, and the
\* entries before it are in the stopped list.
C20_StopAbortsOnFailure ==
    \A i \in 1..Len(tasks) :
        C20_Call(i) =>
            LET t == tasks[i]
                n == Len(StoppedBy(t))
                last == t.calls[Len(t.calls)][1]
            IN  /\ t.result = "rejected"
                /\ n <= Len(t.run0) /\ StoppedBy(t) = SubSeq(t.run0, 1, n)
                /\ \A k \in (n + 1)..Len(t.run0) :
                      t.run0[k] \in Range(runningImageList)
                /\ last = "stop" => t.run0[n] \in Range(runningImageList)
                /\ \A k \in 1..(n - 1) :
                      t.run0[k] \in Range(stoppingImageList)

====
